---- MODULE Spec2Model ----
(***************************************************************************)
(* tacos-cli: the type-reference resolver (fetch_type_info, run by the     *)
(* fetch-schema command) and the schema-tree builder (construct_object,    *)
(* run by the add-types command).                                          *)
(*                                                                         *)
(* JSON values are tagged records, so that a link string, a dictionary, a  *)
(* list and None can stand at the same place of a document:                *)
(*   [k |-> "none"], [k |-> "str", v |-> s], [k |-> "list", v |-> seq],   *)
(*   [k |-> "dict", v |-> function from keys to JSON values].             *)
(* A Python exception is the name of its class in the err field of the     *)
(* result of the operator that models the function raising it.             *)
(***************************************************************************)
EXTENDS Integers, Sequences, FiniteSets, TLC

VARIABLES
    dtr,        \* the registry: pid -> type document served at /v1/types/<pid>
    down,       \* the <<base, pid>> pairs the registry answers with a non-success status
    err_body,   \* the body of a non-success response
    pc,         \* "ready" before the command runs, "done" after
    run,        \* the command that ran: its arguments, its fetches, its exception
    out_file,   \* contents of --output-file (NoFile until something is written)
    in_file,    \* contents of --input-file of add-types
    built,      \* what construct_object returned to add-types
    json_schema, \* the body the registry serves under /v1/types/schema/<pid>
    mscr        \* the MSCR server: whether it answers 200, the requests it received

vars == <<dtr, down, err_body, pc, run, out_file, in_file, built, json_schema, mscr>>

------------------------------------------------------------------------------
(* Bounds of the model *)

\* longest Properties list of a generated document
MaxProps == 2
\* deepest nesting of fetch_type_info calls before the interpreter raises
\* RecursionError (CPython's recursion limit, scaled down)
RecursionLimit == 4
\* deepest nesting of a generated JSON-Schema
JsonDepth == 3
\* most repetitions of a counted option (-v, --dry-run) on a command line
MaxCount == 4

------------------------------------------------------------------------------
(* JSON values and the dictionary operations the code uses *)

JNone == [k |-> "none"]
JStr(s) == [k |-> "str", v |-> s]
JList(s) == [k |-> "list", v |-> s]
JDict(f) == [k |-> "dict", v |-> f]
NotJson == [k |-> "notjson"]
NoFile == [k |-> "nofile"]
EmptyDict == JDict([key \in {} |-> JNone])

IsNone(x) == x.k = "none"
IsStr(x) == x.k = "str"
IsList(x) == x.k = "list"
IsDict(x) == x.k = "dict"

\* d[key] with key present
At(d, key) == d.v[key]
Has(d, key) == IsDict(d) /\ key \in DOMAIN d.v
\* d.get(key, None)
Get(d, key) == IF key \in DOMAIN d.v THEN d.v[key] ELSE JNone
\* d[key] = val
Put(d, key, val) == JDict((key :> val) @@ d.v)
\* lst[i] = val
PutAt(lst, i, val) == JList([lst.v EXCEPT ![i] = val])

NoErr == "none"

------------------------------------------------------------------------------
(* The registry *)

\* "A" is the schema the command is given; "C" is always a basic type
Pids == {"A", "B", "C"}
SchemaPid == "A"
LeafPid == "C"
DefaultBase == "https://typeapi.lab.pidconsortium.net"
CustomBase == "https://dtr.example.org"
Bases == {DefaultBase, CustomBase}
\* type_api_url=None
NoUrl == ""

\* content.Schema of a type document
SchemaOf(doc) == At(At(doc, "content"), "Schema")
WithSchema(doc, schema) == Put(doc, "content", Put(At(doc, "content"), "Schema", schema))

\* { name, pid, type, fundamentalType, content: { Schema: schema } }
TypeDocument(pid, ftype, schema) ==
    JDict(("name" :> JStr(pid)) @@ ("pid" :> JStr(pid)) @@ ("type" :> JStr("InfoType"))
          @@ ("fundamentalType" :> JStr(ftype))
          @@ ("content" :> (IF IsNone(schema) THEN EmptyDict
                            ELSE JDict("Schema" :> schema))))

\* a Properties entry naming its type by link, and one with no Type
LinkItem(pid) == JDict(("Name" :> JStr(pid)) @@ ("Type" :> JStr(pid)))
PlainItem == JDict("Name" :> JStr("plain"))

SeqsUpTo(S, n) == UNION {[1..m -> S] : m \in 0..n}

ArraySchema(link) == JDict(("Type" :> JStr("Array")) @@ ("subCond" :> JStr(link)))
ObjectSchema(props) == JDict(("Type" :> JStr("Object")) @@ ("Properties" :> JList(props)))
BasicSchema == JDict("Type" :> JStr("string"))

\* a section that is an Array and carries Properties too
ArrayWithProperties(link, props) == Put(ArraySchema(link), "Properties", JList(props))

\* Properties entries link to the types; an Array's subCond may link to the schema too
RegistryItems == {LinkItem(p) : p \in Pids \ {SchemaPid}} \cup {PlainItem}

\* the type documents a registry may hold for one pid
TypeDocuments(pid) ==
    {TypeDocument(pid, "String", JNone), TypeDocument(pid, "String", BasicSchema)}
    \cup {TypeDocument(pid, "Array", ArraySchema(l)) : l \in Pids}
    \cup {TypeDocument(pid, "Object", ObjectSchema(ps)) : ps \in SeqsUpTo(RegistryItems, MaxProps)}
    \cup {TypeDocument(pid, "Array", ArrayWithProperties(l, <<LinkItem(q)>>)) :
            l \in Pids \ {SchemaPid}, q \in Pids \ {SchemaPid}}

ErrorBodies ==
    {NotJson,
     JDict("error" :> JStr("not found")),
     JDict(("error" :> JStr("not found")) @@ ("content" :> EmptyDict))}

\* requests.get(type_api_url + link): the response's status and body
http_get(base, link) ==
    IF link \in Pids /\ <<base, link>> \notin down
    THEN [ok |-> TRUE, body |-> dtr[link]]
    ELSE [ok |-> FALSE, body |-> err_body]

Fetch(base, link) == [base |-> base, pid |-> link, ok |-> http_get(base, link).ok]

------------------------------------------------------------------------------
(* fetch_type_info *)

Result(data, log, err) == [data |-> data, log |-> log, err |-> err]

RECURSIVE fetch_type_info(_, _, _, _)
RECURSIVE resolve_properties(_, _, _, _, _, _)

\* lines 38-44 with line 43 tagging the section with the document's own pid
resolve_array_self_tag(data, type_api_url, verbose, depth) ==
    LET schema == SchemaOf(data) IN
    IF ~IsDict(schema) THEN Result(data, <<>>, "AttributeError")
    ELSE IF Get(schema, "Type") # JStr("Array") THEN Result(data, <<>>, NoErr)
    ELSE IF ~Has(schema, "subCond") THEN Result(data, <<>>, "KeyError")
    ELSE
      LET link == At(schema, "subCond") IN
      IF verbose /\ ~Has(data, "name") THEN Result(data, <<>>, "KeyError")
      ELSE IF ~IsStr(link) THEN Result(data, <<>>, "TypeError")
      ELSE
        LET content_response == http_get(type_api_url, link.v)
            log == <<Fetch(type_api_url, link.v)>>
            tagged == WithSchema(data, Put(schema, "Identifier", Get(data, "pid")))
        IN
        IF content_response.body = NotJson THEN Result(tagged, log, "JSONDecodeError")
        ELSE
          LET sub == fetch_type_info(content_response.body, NoUrl, FALSE, depth + 1) IN
          IF sub.err # NoErr THEN Result(tagged, log \o sub.log, sub.err)
          ELSE Result(WithSchema(tagged, Put(SchemaOf(tagged), "subCond", sub.data)),
                      log \o sub.log, NoErr)

\* lines 38-44: the Array section
resolve_array(data, type_api_url, verbose, depth) ==
    LET schema == SchemaOf(data) IN
    IF ~IsDict(schema) THEN Result(data, <<>>, "AttributeError")
    ELSE IF Get(schema, "Type") # JStr("Array") THEN Result(data, <<>>, NoErr)
    ELSE IF ~Has(schema, "subCond") THEN Result(data, <<>>, "KeyError")
    ELSE
      LET link == At(schema, "subCond") IN
      IF verbose /\ ~Has(data, "name") THEN Result(data, <<>>, "KeyError")
      ELSE IF ~IsStr(link) THEN Result(data, <<>>, "TypeError")
      ELSE
        LET content_response == http_get(type_api_url, link.v)
            log == <<Fetch(type_api_url, link.v)>>
            tagged == WithSchema(data, Put(schema, "Identifier", link))
        IN
        IF content_response.body = NotJson THEN Result(tagged, log, "JSONDecodeError")
        ELSE
          LET sub == fetch_type_info(content_response.body, NoUrl, FALSE, depth + 1) IN
          IF sub.err # NoErr THEN Result(tagged, log \o sub.log, sub.err)
          ELSE Result(WithSchema(tagged, Put(SchemaOf(tagged), "subCond", sub.data)),
                      log \o sub.log, NoErr)

\* lines 48-52 with the fetched document inlined as it came, its own links unresolved
resolve_link_shallow(data, type_api_url, verbose, depth, i, log) ==
    LET schema == SchemaOf(data)
        props == At(schema, "Properties")
        item == props.v[i]
        link == Get(item, "Type")
    IN
    IF ~IsStr(link) THEN Result(data, log, "TypeError")
    ELSE
      LET content_response == http_get(type_api_url, link.v)
          log1 == Append(log, Fetch(type_api_url, link.v))
      IN
      IF content_response.body = NotJson THEN Result(data, log1, "JSONDecodeError")
      ELSE Result(WithSchema(data, Put(schema, "Properties",
                                       PutAt(props, i, Put(item, "Type", content_response.body)))),
                  log1, NoErr)

\* lines 48-52: the entry's Type is a link: fetch it, resolve what came, inline it
resolve_link(data, type_api_url, verbose, depth, i, log) ==
    LET schema == SchemaOf(data)
        props == At(schema, "Properties")
        item == props.v[i]
        link == Get(item, "Type")
    IN
    IF ~IsStr(link) THEN Result(data, log, "TypeError")
    ELSE
      LET content_response == http_get(type_api_url, link.v)
          log1 == Append(log, Fetch(type_api_url, link.v))
      IN
      IF content_response.body = NotJson THEN Result(data, log1, "JSONDecodeError")
      ELSE
        LET sub == fetch_type_info(content_response.body, NoUrl, FALSE, depth + 1) IN
        IF sub.err # NoErr THEN Result(data, log1 \o sub.log, sub.err)
        ELSE Result(WithSchema(data, Put(schema, "Properties",
                                         PutAt(props, i, Put(item, "Type", sub.data)))),
                    log1 \o sub.log, NoErr)

\* line 47 reading item["Type"] where the code reads item.get("Type", None)
resolve_item_strict(data, type_api_url, verbose, depth, i, log) ==
    LET item == At(SchemaOf(data), "Properties").v[i] IN
    IF ~IsDict(item) THEN Result(data, log, "TypeError")
    ELSE IF ~Has(item, "Type") THEN Result(data, log, "KeyError")
    ELSE resolve_link(data, type_api_url, verbose, depth, i, log)

\* lines 47-52: one entry of Properties
resolve_item(data, type_api_url, verbose, depth, i, log) ==
    LET item == At(SchemaOf(data), "Properties").v[i] IN
    IF ~IsDict(item) THEN Result(data, log, "AttributeError")
    ELSE IF IsNone(Get(item, "Type")) THEN Result(data, log, NoErr)
    ELSE resolve_link(data, type_api_url, verbose, depth, i, log)

\* line 46 walking Properties from the last entry to the first
RECURSIVE resolve_properties_reversed(_, _, _, _, _, _)
resolve_properties_reversed(data, type_api_url, verbose, depth, i, log) ==
    LET n == Len(At(SchemaOf(data), "Properties").v) IN
    IF i > n THEN Result(data, log, NoErr)
    ELSE
      LET r == resolve_item(data, type_api_url, verbose, depth, n + 1 - i, log) IN
      IF r.err # NoErr THEN r
      ELSE resolve_properties_reversed(r.data, type_api_url, verbose, depth, i + 1, r.log)

\* line 46: the loop over Properties, from entry i on
resolve_properties(data, type_api_url, verbose, depth, i, log) ==
    IF i > Len(At(SchemaOf(data), "Properties").v) THEN Result(data, log, NoErr)
    ELSE
      LET r == resolve_item(data, type_api_url, verbose, depth, i, log) IN
      IF r.err # NoErr THEN r
      ELSE resolve_properties(r.data, type_api_url, verbose, depth, i + 1, r.log)

\* lines 27-53
fetch_type_info(type_api_resp, type_api_url_arg, verbose, depth) ==
    LET type_api_url == IF type_api_url_arg = NoUrl THEN DefaultBase ELSE type_api_url_arg
        data == type_api_resp
    IN
    IF depth > RecursionLimit THEN Result(data, <<>>, "RecursionError")
    ELSE IF ~IsDict(data) THEN Result(data, <<>>, "AttributeError")
    ELSE IF ~IsDict(Get(data, "content")) THEN Result(data, <<>>, "AttributeError")
    ELSE IF IsNone(Get(At(data, "content"), "Schema")) THEN Result(data, <<>>, NoErr)
    ELSE
      LET a == resolve_array(data, type_api_url, verbose, depth) IN
      IF a.err # NoErr THEN a
      ELSE IF IsNone(Get(SchemaOf(a.data), "Properties")) THEN a
      ELSE IF ~IsList(At(SchemaOf(a.data), "Properties"))
           THEN Result(a.data, a.log, "AttributeError")
      ELSE resolve_properties(a.data, type_api_url, verbose, depth, 1, a.log)

------------------------------------------------------------------------------
(* fetch-schema *)

NoRun == [cmd |-> "none", base |-> NoUrl, pid |-> "", resolve |-> FALSE,
          log |-> <<>>, err |-> NoErr, data |-> JNone, wrote |-> FALSE]

\* lines 110-145
fetch_schema(dtr_url, resolve_subtypes, dtr_schema_pid) ==
    LET r == http_get(dtr_url, dtr_schema_pid)
        first == <<Fetch(dtr_url, dtr_schema_pid)>>
        res == IF ~r.ok THEN Result(JNone, <<>>, "HTTPError")
               ELSE IF resolve_subtypes
                    THEN fetch_type_info(r.body, dtr_url, TRUE, 1)
                    ELSE Result(r.body, <<>>, NoErr)
    IN
    /\ pc = "ready"
    /\ pc' = "done"
    /\ run' = [cmd |-> "fetch-schema", base |-> dtr_url, pid |-> dtr_schema_pid,
               resolve |-> resolve_subtypes, log |-> first \o res.log, err |-> res.err,
               data |-> res.data, wrote |-> (res.err = NoErr)]
    /\ out_file' = IF res.err = NoErr THEN res.data ELSE out_file
    /\ UNCHANGED <<dtr, down, err_body, in_file, built, json_schema, mscr>>

------------------------------------------------------------------------------
(* DTRType, DTRSchema and construct_object *)

\* Objects live in a heap, a sequence of records; a reference is an index into it
\* and None is 0.  frag is a history of the build: frag[ref] is the data argument
\* of the construct_object call that created the object.
None == 0

\* DTRType built without its parent (parent= left out of the call)
DTRType_orphan(id, name, type, parent, child, elements) ==
    [cls |-> "DTRType", id |-> id, name |-> name, type |-> type, resolved |-> JNone,
     parent |-> None, child |-> child,
     elements |-> IF elements = JNone THEN <<>> ELSE elements]

\* helpers.py lines 92-101
DTRType(id, name, type, parent, child, elements) ==
    [cls |-> "DTRType", id |-> id, name |-> name, type |-> type, resolved |-> JNone,
     parent |-> parent, child |-> child,
     elements |-> IF elements = JNone THEN <<>> ELSE elements]

\* helpers.py lines 105-111
DTRSchema(id, name, elements) ==
    [cls |-> "DTRSchema", id |-> id, name |-> name, resolved |-> JNone,
     elements |-> IF elements = JNone THEN <<>> ELSE elements]

Built(heap, frag, ref, err) == [heap |-> heap, frag |-> frag, ref |-> ref, err |-> err]
Raise(heap, frag, err) == Built(heap, frag, None, err)
New(heap, frag, object, data) ==
    Built(Append(heap, object), Append(frag, data), Len(heap) + 1, NoErr)

\* the node built from subCond appended to elements, child left None
set_child_as_element(heap, dtr_object, child) ==
    [heap EXCEPT ![dtr_object].elements = Append(@, child)]

\* dtr_object.child = <the node built from subCond>
set_child(heap, dtr_object, child) == [heap EXCEPT ![dtr_object].child = child]

\* dtr_object.elements.insert(0, o)
prepend_element(heap, dtr_object, o) ==
    [heap EXCEPT ![dtr_object].elements = <<o>> \o @]

\* dtr_object.child = o, in the loop over Properties
assign_child(heap, dtr_object, o) == [heap EXCEPT ![dtr_object].child = o]

\* dtr_object.elements.append(o)
append_element(heap, dtr_object, o) ==
    [heap EXCEPT ![dtr_object].elements = Append(@, o)]

RECURSIVE construct_object(_, _, _, _, _, _)
RECURSIVE build_elements(_, _, _, _, _, _)

\* for e in ...["Properties"]: o = construct_object(e, ..., parent=dtr_object);
\* dtr_object.elements.append(o) -- from entry i on
build_elements(heap, frag, properties, i, new_recursion_depth, dtr_object) ==
    IF i > Len(properties) THEN Built(heap, frag, dtr_object, NoErr)
    ELSE
      LET o == construct_object(heap, frag, properties[i], new_recursion_depth, FALSE, dtr_object) IN
      IF o.err # NoErr THEN o
      ELSE build_elements(append_element(o.heap, dtr_object, o.ref), o.frag,
                          properties, i + 1, new_recursion_depth, dtr_object)

\* The gate on content.Schema.Type that follows fundamentalType == "Array" and
\* fundamentalType == "Object" alike, under the Type key (tdoc = data["Type"]) and
\* at top level (tdoc = data).
build_structured(heap, frag, data, tdoc, new_recursion_depth, parent_param) ==
    IF ~Has(tdoc, "pid") \/ ~Has(tdoc, "name") THEN Raise(heap, frag, "KeyError")
    ELSE IF ~Has(tdoc, "content") THEN Raise(heap, frag, "KeyError")
    ELSE IF ~IsDict(At(tdoc, "content")) THEN Raise(heap, frag, "TypeError")
    ELSE IF ~Has(At(tdoc, "content"), "Schema") THEN Raise(heap, frag, "KeyError")
    ELSE IF ~IsDict(SchemaOf(tdoc)) THEN Raise(heap, frag, "AttributeError")
    ELSE
      LET pid == At(tdoc, "pid")
          name == At(tdoc, "name")
          schema == SchemaOf(tdoc)
      IN
      IF Get(schema, "Type") = JStr("Array") THEN
        LET n == New(heap, frag, DTRType(pid, name, "Array", parent_param, None, JNone), data) IN
        IF ~Has(schema, "subCond") THEN Raise(n.heap, n.frag, "KeyError")
        ELSE
          LET c == construct_object(n.heap, n.frag, At(schema, "subCond"),
                                    new_recursion_depth, FALSE, n.ref) IN
          IF c.err # NoErr THEN c
          ELSE Built(set_child(c.heap, n.ref, c.ref), c.frag, n.ref, NoErr)
      ELSE IF Get(schema, "Type") = JStr("Object") THEN
        LET n == New(heap, frag, DTRType(pid, name, "Object", parent_param, None, JNone), data) IN
        IF ~Has(schema, "Properties") THEN Raise(n.heap, n.frag, "KeyError")
        ELSE IF ~IsList(At(schema, "Properties")) THEN Raise(n.heap, n.frag, "TypeError")
        ELSE build_elements(n.heap, n.frag, At(schema, "Properties").v, 1,
                            new_recursion_depth, n.ref)
      ELSE New(heap, frag, DTRType(pid, name, "BasicInfoType", parent_param, None, JNone), data)

\* helpers.py lines 255-546
construct_object(heap, frag, data, recursion_depth, first_run, parent) ==
    LET parent_param == parent
        new_recursion_depth == recursion_depth + 1
    IN
    IF ~IsDict(data) THEN Raise(heap, frag, "AttributeError")
    ELSE IF first_run THEN
      \* lines 267-279
      LET n == New(heap, frag, DTRSchema(Get(data, "pid"), Get(data, "name"), JNone), data) IN
      IF ~IsDict(Get(data, "content")) THEN Raise(n.heap, n.frag, "AttributeError")
      ELSE IF IsNone(Get(At(data, "content"), "Schema")) THEN n
      ELSE IF ~IsDict(SchemaOf(data)) THEN Raise(n.heap, n.frag, "TypeError")
      ELSE IF ~Has(SchemaOf(data), "Properties") THEN Raise(n.heap, n.frag, "KeyError")
      ELSE IF ~IsList(At(SchemaOf(data), "Properties")) THEN Raise(n.heap, n.frag, "TypeError")
      ELSE build_elements(n.heap, n.frag, At(SchemaOf(data), "Properties").v, 1,
                          new_recursion_depth, n.ref)
    ELSE IF ~IsNone(Get(data, "Type")) THEN
      \* lines 282-414
      LET tdoc == At(data, "Type") IN
      IF ~IsDict(tdoc) THEN Raise(heap, frag, "AttributeError")
      ELSE IF Get(tdoc, "fundamentalType") \in {JStr("Array"), JStr("Object")}
      THEN build_structured(heap, frag, data, tdoc, new_recursion_depth, parent_param)
      ELSE IF ~Has(tdoc, "pid") \/ ~Has(data, "Name") \/ ~Has(tdoc, "type")
      THEN Raise(heap, frag, "KeyError")
      ELSE New(heap, frag,
               DTRType(At(tdoc, "pid"), At(data, "Name"), "BasicInfoType", parent_param, None, JNone),
               data)
    ELSE IF ~IsNone(Get(data, "fundamentalType")) THEN
      \* lines 416-531
      IF Get(data, "fundamentalType") \in {JStr("Array"), JStr("Object")}
      THEN build_structured(heap, frag, data, data, new_recursion_depth, parent_param)
      ELSE IF ~Has(data, "pid") \/ ~Has(data, "name") \/ ~Has(data, "type")
      THEN Raise(heap, frag, "KeyError")
      ELSE New(heap, frag,
               DTRType(At(data, "pid"), At(data, "name"), "BasicInfoType", parent_param, None, JNone),
               data)
    ELSE
      \* lines 532-544: data["Type"] where data.get("Type") is None
      IF ~Has(data, "Type") THEN Raise(heap, frag, "KeyError")
      ELSE Raise(heap, frag, "TypeError")

------------------------------------------------------------------------------
(* add-types *)

NoTree == Built(<<>>, <<>>, None, NoErr)

\* "P:" + e.parent.name, "C:" + e.child.name, "--" + new_e.name ...: the string
\* concatenations of lines 395-417 raise TypeError on a value that is no string
LogRaises(heap, root) ==
    LET Kids(x) == {heap[x].elements[i] : i \in 1..Len(heap[x].elements)}
        BadName(x) == x = None \/ ~IsStr(heap[x].name)
        BadChild(x) == heap[x].child # None /\ BadName(heap[x].child)
    IN
    \E e \in Kids(root) :
       \/ BadName(heap[e].parent)
       \/ BadChild(e)
       \/ \E new_e \in Kids(e) :
            \/ BadName(new_e) \/ ~IsStr(heap[new_e].id)
            \/ BadName(heap[new_e].parent) \/ BadChild(new_e)
            \/ \E new_new_e \in Kids(new_e) :
                 \/ BadName(new_new_e) \/ ~IsStr(heap[new_new_e].id)
                 \/ BadName(heap[new_new_e].parent) \/ BadChild(new_new_e)

\* tacos-cli.py lines 339-421
add_types(stdin_is_tty) ==
    LET r == construct_object(<<>>, <<>>, in_file, 0, TRUE, None)
        err == IF stdin_is_tty THEN NoErr
               ELSE IF r.err # NoErr THEN r.err
               ELSE IF LogRaises(r.heap, r.ref) THEN "TypeError" ELSE NoErr
    IN
    /\ pc = "ready"
    /\ pc' = "done"
    /\ run' = [NoRun EXCEPT !.cmd = IF stdin_is_tty THEN "add-types-aborted" ELSE "add-types",
                            !.err = err]
    /\ built' = IF stdin_is_tty \/ r.err # NoErr THEN NoTree ELSE r
    /\ UNCHANGED <<dtr, down, err_body, out_file, in_file, json_schema, mscr>>

------------------------------------------------------------------------------
(* fetch-json-schema: tacos-cli.py fetch_json_schema, helpers.py delete_keys_from_dict *)

\* helpers.py line 88: the highest member of the Verbosity enumeration
DEBUG == 3

\* Verbosity(verbose) raises ValueError for a count that is no member
ValidVerbosity(verbose) == verbose \in 0..DEBUG

\* helpers.py lines 242-252: del dict_del[k] for each key, then the same for every
\* value that is a dict; values of any other type are passed over
RECURSIVE delete_keys_from_dict(_, _)
delete_keys_from_dict(dict_del, lst_keys) ==
    JDict([key \in DOMAIN dict_del.v \ lst_keys |->
             IF IsDict(dict_del.v[key])
             THEN delete_keys_from_dict(dict_del.v[key], lst_keys)
             ELSE dict_del.v[key]])

\* requests.get(dtr_url + "/v1/types/schema/" + pid)
http_get_schema(base, pid) ==
    IF pid \in Pids /\ <<base, pid>> \notin down
    THEN [ok |-> TRUE, body |-> json_schema]
    ELSE [ok |-> FALSE, body |-> err_body]

\* tacos-cli.py lines 171-216
fetch_json_schema(verbose, dtr_url, dtr_schema_pid) ==
    LET r == http_get_schema(dtr_url, dtr_schema_pid)
        err == IF ~ValidVerbosity(verbose) THEN "ValueError"
               ELSE IF ~r.ok THEN "HTTPError"
               ELSE IF r.body = NotJson THEN "JSONDecodeError"
               ELSE IF ~IsDict(r.body) THEN "TypeError"
               ELSE NoErr
    IN
    /\ pc = "ready"
    /\ pc' = "done"
    /\ run' = [cmd |-> "fetch-json-schema", base |-> dtr_url, pid |-> dtr_schema_pid,
               verbose |-> verbose, err |-> err]
    /\ out_file' = IF err = NoErr THEN delete_keys_from_dict(r.body, {"unique"}) ELSE out_file
    /\ UNCHANGED <<dtr, down, err_body, in_file, built, json_schema, mscr>>

------------------------------------------------------------------------------
(* register-schema: tacos-cli.py register_schema *)

NoMscr == [ok |-> TRUE, requests |-> <<>>]
MscrBase == "https://mscr-test.rahtiapp.fi"

\* json.dumps(obj, indent=2).encode('utf-8')
json_dumps(obj) == [k |-> "bytes", json |-> obj]

\* lines 253-255 and 280-281: the prepared PUT with the session's headers
prepare_request(mscr_url, mscr_token, dtr_json_schema) ==
    [method |-> "PUT", url |-> <<mscr_url, "/datamodel-api/v2/schemaFull">>,
     authorization |-> IF mscr_token = "" THEN JNone ELSE JStr(<<"Bearer", mscr_token>>),
     file |-> json_dumps(dtr_json_schema)]

\* the request goes out on every run, --dry-run or not
dry_run_ignored(dry_run) == TRUE

\* line 289: if not dry_run
not_dry_run(dry_run) == dry_run = 0

\* tacos-cli.py lines 241-307
register_schema(stdin_is_tty, mscr_token, mscr_url, verbose, dry_run) ==
    LET aborted == ValidVerbosity(verbose) /\ stdin_is_tty
        loaded == ValidVerbosity(verbose) /\ ~stdin_is_tty /\ in_file \notin {NoFile, NotJson}
        sent == loaded /\ not_dry_run(dry_run)
        err == IF ~ValidVerbosity(verbose) THEN "ValueError"
               ELSE IF aborted THEN NoErr
               ELSE IF in_file = NoFile THEN "FileNotFoundError"
               ELSE IF in_file = NotJson THEN "JSONDecodeError"
               ELSE IF sent /\ ~mscr.ok THEN "HTTPError"
               ELSE NoErr
    IN
    /\ pc = "ready"
    /\ pc' = "done"
    /\ run' = [cmd |-> IF aborted THEN "register-schema-aborted" ELSE "register-schema",
               verbose |-> verbose, dry_run |-> dry_run, err |-> err]
    /\ mscr' = IF sent
               THEN [mscr EXCEPT !.requests = Append(@, prepare_request(mscr_url, mscr_token, in_file))]
               ELSE mscr
    /\ UNCHANGED <<dtr, down, err_body, out_file, in_file, built, json_schema>>

------------------------------------------------------------------------------
(* The specifications *)

\* fetch-schema against a registry
Init ==
    /\ \E a \in TypeDocuments("A"), b \in TypeDocuments("B") :
          dtr = ("A" :> a) @@ ("B" :> b) @@ (LeafPid :> TypeDocument(LeafPid, "String", BasicSchema))
    /\ down \in {{}} \cup {{<<b, "B">>} : b \in Bases}
    /\ err_body \in ErrorBodies
    /\ (down = {} => err_body = NotJson)
    /\ pc = "ready"
    /\ run = NoRun
    /\ out_file = NoFile
    /\ in_file = NoFile
    /\ built = NoTree
    /\ json_schema = NotJson
    /\ mscr = NoMscr

Next ==
    \E b \in Bases, rs \in BOOLEAN : fetch_schema(b, rs, SchemaPid)

Spec == Init /\ [][Next]_vars

\* Resolved documents, as fetch-schema --resolve-subtypes writes them
BasicTypes == {TypeDocument(p, "String", BasicSchema) : p \in Pids \ {SchemaPid}}
TypedItem(tdoc) == JDict(("Name" :> At(tdoc, "name")) @@ ("Type" :> tdoc))
BasicItems == {TypedItem(t) : t \in BasicTypes}
Without(d, key) == JDict([kk \in DOMAIN d.v \ {key} |-> d.v[kk]])

ResolvedArraySchema(sub) == JDict(("Type" :> JStr("Array")) @@ ("Identifier" :> At(sub, "pid"))
                                  @@ ("subCond" :> sub))

\* content.Schema of the type under test: every Schema.Type, over basic types
InnerSchemas ==
    {JNone, BasicSchema}
    \cup {ResolvedArraySchema(t) : t \in BasicTypes}
    \cup {ObjectSchema(ps) : ps \in SeqsUpTo(BasicItems, MaxProps)}

\* the type under test: every fundamentalType with every Schema.Type, and the
\* same without a fundamentalType
InnerTypes ==
    LET full == {TypeDocument("T", ft, sch) : ft \in {"Array", "Object", "String"},
                                              sch \in InnerSchemas}
    IN full \cup {Without(t, "fundamentalType") : t \in full}

\* the places of the type under test: a property of the schema, the element
\* type of an array property, a property of an object property
OuterItems ==
    {PlainItem}
    \cup {TypedItem(t) : t \in InnerTypes}
    \cup {TypedItem(TypeDocument("W", "Array", ResolvedArraySchema(t))) : t \in InnerTypes}
    \cup {TypedItem(TypeDocument("W", "Object", ObjectSchema(<<TypedItem(t)>>))) : t \in InnerTypes}

InsertAt(seq, i, x) == SubSeq(seq, 1, i - 1) \o <<x>> \o SubSeq(seq, i, Len(seq))

\* Properties of the schema: basic properties, with at most one other among them
SchemaProperties ==
    SeqsUpTo(BasicItems, MaxProps)
    \cup {InsertAt(ps, i, x) : <<ps, i, x>> \in
            {t \in SeqsUpTo(BasicItems, MaxProps - 1) \X (1..MaxProps) \X OuterItems :
               t[2] <= Len(t[1]) + 1}}

SchemaDocument(props) ==
    JDict(("pid" :> JStr("S")) @@ ("name" :> JStr("root"))
          @@ ("content" :> JDict("Schema" :> JDict("Properties" :> JList(props)))))

InputDocuments ==
    {SchemaDocument(ps) : ps \in SchemaProperties}
    \cup {Without(SchemaDocument(ps), key) : ps \in SeqsUpTo(BasicItems, MaxProps - 1),
                                             key \in {"pid", "name"}}
    \cup {Put(SchemaDocument(<<>>), "content", EmptyDict)}

InitBuild ==
    /\ in_file \in InputDocuments
    /\ dtr = <<>>
    /\ down = {}
    /\ err_body = NotJson
    /\ pc = "ready"
    /\ run = NoRun
    /\ out_file = NoFile
    /\ built = NoTree
    /\ json_schema = NotJson
    /\ mscr = NoMscr

NextBuild == \E stdin_is_tty \in BOOLEAN : add_types(stdin_is_tty)

SpecBuild == InitBuild /\ [][NextBuild]_vars

\* JSON values up to a nesting depth, over the keyword fetch-json-schema strips
\* and one other key: a dict holds either or both, a list holds one value
RECURSIVE JsonValues(_)
JsonValues(depth) ==
    IF depth = 0 THEN {JStr("x")}
    ELSE LET below == JsonValues(depth - 1) IN
         {JStr("x"), EmptyDict, JDict("unique" :> JStr("x"))}
         \cup {JDict("items" :> d) : d \in below}
         \cup {JDict(("unique" :> JStr("x")) @@ ("items" :> d)) : d \in below}
         \cup {JList(<<d>>) : d \in below}

\* fetch-json-schema against a registry
InitJson ==
    /\ json_schema \in JsonValues(JsonDepth) \cup {NotJson}
    /\ dtr = <<>>
    /\ down \in {{}, {<<CustomBase, SchemaPid>>}}
    /\ err_body = NotJson
    /\ pc = "ready"
    /\ run = NoRun
    /\ out_file = NoFile
    /\ in_file = NoFile
    /\ built = NoTree
    /\ mscr = NoMscr

NextJson == \E verbose \in 0..MaxCount, b \in Bases : fetch_json_schema(verbose, b, SchemaPid)

SpecJson == InitJson /\ [][NextJson]_vars

\* register-schema with an input file and an MSCR server
InitRegister ==
    /\ in_file \in JsonValues(JsonDepth - 1) \cup {NotJson, NoFile}
    /\ mscr \in {[NoMscr EXCEPT !.ok = up] : up \in BOOLEAN}
    /\ dtr = <<>>
    /\ down = {}
    /\ err_body = NotJson
    /\ pc = "ready"
    /\ run = NoRun
    /\ out_file = NoFile
    /\ built = NoTree
    /\ json_schema = NotJson

NextRegister ==
    \E stdin_is_tty \in BOOLEAN, mscr_token \in {"", "token"},
       verbose \in 0..MaxCount, dry_run \in 0..MaxCount :
        register_schema(stdin_is_tty, mscr_token, MscrBase, verbose, dry_run)

SpecRegister == InitRegister /\ [][NextRegister]_vars

------------------------------------------------------------------------------
(* What the claims speak of *)

\* a field of a document, None where the document has none (for the formulas)
Field(d, key) == IF IsDict(d) /\ key \in DOMAIN d.v THEN d.v[key] ELSE JNone
SchemaField(doc) == Field(Field(doc, "content"), "Schema")
PropertiesOf(doc) ==
    IF IsList(Field(SchemaField(doc), "Properties"))
    THEN Field(SchemaField(doc), "Properties").v ELSE <<>>

Ran == pc = "done" /\ run.cmd = "fetch-schema"
\* fetch_type_info ran on the fetched schema
Resolved == Ran /\ run.resolve /\ run.log[1].ok
\* the fetches fetch_type_info made (the first of the log is fetch_schema's own)
ResolverFetches == SubSeq(run.log, 2, Len(run.log))
AllFetchesOk == \A i \in 1..Len(run.log) : run.log[i].ok

\* the link identifiers of one document's content.Schema
LinksOf(doc) ==
    (IF Field(SchemaField(doc), "Type") = JStr("Array")
        /\ IsStr(Field(SchemaField(doc), "subCond"))
     THEN {Field(SchemaField(doc), "subCond").v} ELSE {})
    \cup {Field(PropertiesOf(doc)[i], "Type").v :
            i \in {j \in 1..Len(PropertiesOf(doc)) : IsStr(Field(PropertiesOf(doc)[j], "Type"))}}

RECURSIVE ReachableIn(_, _)
ReachableIn(S, n) ==
    IF n = 0 THEN S
    ELSE ReachableIn(S \cup UNION {LinksOf(dtr[p]) : p \in S}, n - 1)
\* the pids the schema's links lead to, the schema's own included
Reachable == ReachableIn({SchemaPid}, Cardinality(Pids))
OnCycle(p) == p \in ReachableIn(LinksOf(dtr[p]), Cardinality(Pids))
Acyclic == \A p \in Reachable : ~OnCycle(p)

\* no link identifier is left at any depth
RECURSIVE FullyResolved(_)
FullyResolved(doc) ==
    /\ IsDict(doc)
    /\ IsDict(Field(doc, "content"))
    /\ Field(SchemaField(doc), "Type") = JStr("Array") =>
         /\ IsDict(Field(SchemaField(doc), "subCond"))
         /\ FullyResolved(Field(SchemaField(doc), "subCond"))
    /\ \A i \in 1..Len(PropertiesOf(doc)) :
         LET t == Field(PropertiesOf(doc)[i], "Type") IN
         IsNone(t) \/ (IsDict(t) /\ FullyResolved(t))

\* C1: with an acyclic registry whose every fetch succeeds, fetch_type_info
\* returns without error a document in which, at every nesting level, each Array
\* section's subCond and each Properties entry's Type is an inlined, fully
\* resolved type document, never a link string.
C1_FullDepthResolution ==
    (Resolved /\ Acyclic /\ AllFetchesOk) =>
        /\ run.err = NoErr
        /\ FullyResolved(run.data)
        /\ out_file = run.data

\* a run that inlined a type at the second level: A is an array of B, and B an
\* object with a property of type C
C1_Witness ==
    /\ Resolved /\ Acyclic /\ AllFetchesOk /\ run.err = NoErr
    /\ Field(SchemaField(run.data), "Type") = JStr("Array")
    /\ \E i \in 1..Len(PropertiesOf(Field(SchemaField(run.data), "subCond"))) :
         IsDict(Field(PropertiesOf(Field(SchemaField(run.data), "subCond"))[i], "Type"))

\* C2: when the schema's links lead into a reference cycle, the resolution ends
\* with CycleDetectedError.
C2_CycleTermination ==
    (Resolved /\ ~Acyclic /\ AllFetchesOk) => run.err = "CycleDetectedError"

\* C8: whenever a fetch made during the resolution gets a non-success response,
\* the resolution fails with a NetworkError and the body is not inlined.
C8_NetworkError ==
    (Resolved /\ \E i \in 1..Len(ResolverFetches) : ~ResolverFetches[i].ok) =>
        /\ run.err = "NetworkError"
        /\ ~run.wrote

\* C9: a run that hit an error (an exception, or a non-success response to one of
\* its fetches) writes no document: the output file is as it was.
C9_AllOrNothing ==
    (Ran /\ (run.err # NoErr \/ ~AllFetchesOk)) => (~run.wrote /\ out_file = NoFile)

\* the document has no link identifier: its Schema section is not an Array and
\* none of its Properties entries has a Type
NoLinkIdentifier(doc) ==
    /\ Field(SchemaField(doc), "Type") # JStr("Array")
    /\ \A i \in 1..Len(PropertiesOf(doc)) : IsNone(Field(PropertiesOf(doc)[i], "Type"))

\* every field of old is in new with its value, fields of dictionaries and
\* entries of lists likewise; new may hold more keys
RECURSIVE KeepsFields(_, _)
KeepsFields(old, new) ==
    IF IsDict(old)
    THEN IsDict(new) /\ \A key \in DOMAIN old.v :
           key \in DOMAIN new.v /\ KeepsFields(old.v[key], new.v[key])
    ELSE IF IsList(old)
    THEN IsList(new) /\ Len(new.v) = Len(old.v)
         /\ \A i \in 1..Len(old.v) : KeepsFields(old.v[i], new.v[i])
    ELSE new = old

\* C10: resolving a document with no link identifier makes no fetch and returns
\* the document with every existing field unaltered.
C10_NoReferenceRoundTrip ==
    (Resolved /\ NoLinkIdentifier(dtr[SchemaPid])) =>
        /\ run.err = NoErr
        /\ ResolverFetches = <<>>
        /\ KeepsFields(dtr[SchemaPid], run.data)
        /\ out_file = run.data

\* a resolved schema whose Properties are two entries without a Type
C10_Witness ==
    /\ Resolved /\ NoLinkIdentifier(dtr[SchemaPid]) /\ run.err = NoErr
    /\ Len(PropertiesOf(dtr[SchemaPid])) = MaxProps
    /\ out_file = dtr[SchemaPid]

------------------------------------------------------------------------------
(* The tree construct_object returned *)

HasTree == pc = "done" /\ run.cmd = "add-types" /\ built.ref # None
Nodes == 1..Len(built.heap)
TypeNodes == {n \in Nodes : built.heap[n].cls = "DTRType"}
NodesOfType(t) == {n \in TypeNodes : built.heap[n].type = t}
\* the document of the fragment that carries pid, fundamentalType and content
TypeDocOf(fragment) ==
    IF IsNone(Field(fragment, "Type")) THEN fragment ELSE Field(fragment, "Type")
DeclaredKind(fragment) == Field(TypeDocOf(fragment), "fundamentalType")
\* the Properties and the subCond node n was built from
InputProperties(n) ==
    IF n = built.ref THEN PropertiesOf(built.frag[n]) ELSE PropertiesOf(TypeDocOf(built.frag[n]))
InputSubCond(n) == Field(SchemaField(TypeDocOf(built.frag[n])), "subCond")

\* the elements of n are the nodes built from props, one per entry, in order
ElementsFollow(n, props) ==
    /\ Len(built.heap[n].elements) = Len(props)
    /\ \A i \in 1..Len(props) :
         LET e == built.heap[n].elements[i] IN
         /\ e \in TypeNodes
         /\ built.frag[e] = props[i]
         /\ built.heap[e].id = Field(TypeDocOf(props[i]), "pid")

\* C3: the kind of every built node follows the fundamentalType its fragment
\* declares: Array gives an Array node whose child is built from subCond, Object
\* an Object node whose elements are built from Properties, anything else a
\* BasicInfoType leaf.
C3_KindDispatch ==
    HasTree => \A n \in TypeNodes :
        LET node == built.heap[n]
            kind == DeclaredKind(built.frag[n])
        IN
        /\ kind = JStr("Array") =>
             /\ node.type = "Array"
             /\ node.child # None
             /\ built.frag[node.child] = InputSubCond(n)
        /\ kind = JStr("Object") =>
             /\ node.type = "Object"
             /\ ElementsFollow(n, InputProperties(n))
        /\ kind \notin {JStr("Array"), JStr("Object")} =>
             /\ node.type = "BasicInfoType"
             /\ node.child = None
             /\ node.elements = <<>>

\* C4: the root carries the document's pid and name and holds one built node per
\* entry of content.Schema.Properties, in order; every Object node holds one
\* built node per entry of its input Properties, in order.
C4_RootAndOrder ==
    HasTree =>
        /\ built.heap[built.ref].cls = "DTRSchema"
        /\ built.heap[built.ref].id = Field(in_file, "pid")
        /\ built.heap[built.ref].name = Field(in_file, "name")
        /\ ElementsFollow(built.ref, PropertiesOf(in_file))
        /\ \A n \in NodesOfType("Object") : ElementsFollow(n, InputProperties(n))

\* a root with MaxProps different properties, one of them an Object of MaxProps
\* different properties
C4_Witness ==
    /\ HasTree
    /\ Len(built.heap[built.ref].elements) = MaxProps
    /\ built.heap[built.heap[built.ref].elements[1]].id
         # built.heap[built.heap[built.ref].elements[MaxProps]].id
    /\ \E n \in NodesOfType("Object") :
         /\ Len(built.heap[n].elements) = MaxProps
         /\ built.heap[built.heap[n].elements[1]].id
              # built.heap[built.heap[n].elements[MaxProps]].id

\* C5: every Array node has a child and no elements.
C5_ArrayShape ==
    HasTree => \A n \in NodesOfType("Array") :
        /\ built.heap[n].child \in TypeNodes
        /\ built.heap[n].elements = <<>>

\* a tree with an Array node whose child is an Array node
C5_Witness ==
    /\ HasTree
    /\ \E n \in NodesOfType("Array") :
         built.heap[n].child \in NodesOfType("Array")

\* C6: every Object node built from a non-empty Properties list has elements and
\* no child; every BasicInfoType node has neither.
C6_ObjectShape ==
    HasTree =>
        /\ \A n \in NodesOfType("Object") :
             Len(InputProperties(n)) > 0 =>
               (built.heap[n].elements # <<>> /\ built.heap[n].child = None)
        /\ \A n \in NodesOfType("BasicInfoType") :
             built.heap[n].elements = <<>> /\ built.heap[n].child = None

\* a tree with an Object node built from a non-empty Properties list, its
\* elements BasicInfoType nodes
C6_Witness ==
    /\ HasTree
    /\ \E n \in NodesOfType("Object") :
         /\ Len(InputProperties(n)) > 0
         /\ built.heap[n].elements[1] \in NodesOfType("BasicInfoType")

\* following parent from n: TRUE when the root is reached with no node met twice
RECURSIVE ClimbsToRoot(_, _)
ClimbsToRoot(n, seen) ==
    IF n = built.ref THEN TRUE
    ELSE IF n = None \/ n \in seen THEN FALSE
    ELSE ClimbsToRoot(built.heap[n].parent, seen \cup {n})

\* C7: every element of a node X and the child of an Array node X has parent X,
\* and following parent from any node reaches the root without revisiting a node.
C7_ParentRelation ==
    HasTree =>
        /\ \A x \in Nodes : \A i \in 1..Len(built.heap[x].elements) :
             built.heap[built.heap[x].elements[i]].parent = x
        /\ \A x \in NodesOfType("Array") :
             built.heap[x].child # None => built.heap[built.heap[x].child].parent = x
        /\ \A n \in TypeNodes : ClimbsToRoot(n, {})

\* a tree three levels deep: a node whose parent's parent's parent is the root
C7_Witness ==
    /\ HasTree
    /\ \E n \in TypeNodes :
         /\ built.heap[n].parent \in TypeNodes
         /\ built.heap[built.heap[n].parent].parent \in TypeNodes
         /\ built.heap[built.heap[built.heap[n].parent].parent].parent = built.ref

------------------------------------------------------------------------------
(* The resolver's tags, registry and fetch order *)

\* every Array section of the document carries in Identifier the link its
\* subCond held in the registry, and in subCond the resolved document of that pid
RECURSIVE ArraysTagged(_)
ArraysTagged(doc) ==
    /\ Field(SchemaField(doc), "Type") = JStr("Array") =>
         /\ IsStr(Field(doc, "pid")) /\ Field(doc, "pid").v \in Pids
         /\ Field(SchemaField(doc), "Identifier")
              = Field(SchemaField(dtr[Field(doc, "pid").v]), "subCond")
         /\ IsDict(Field(SchemaField(doc), "subCond"))
         /\ Field(Field(SchemaField(doc), "subCond"), "pid")
              = Field(SchemaField(doc), "Identifier")
         /\ FullyResolved(Field(SchemaField(doc), "subCond"))
         /\ ArraysTagged(Field(SchemaField(doc), "subCond"))
    /\ \A i \in 1..Len(PropertiesOf(doc)) :
         IsDict(Field(PropertiesOf(doc)[i], "Type")) =>
           ArraysTagged(Field(PropertiesOf(doc)[i], "Type"))

\* C11: after a successful resolution every Array section the resolver went
\* through has Identifier equal to the link subCond held before, and subCond
\* holds the resolved document fetched for that link.
C11_ArrayTagging ==
    /\ (Resolved /\ run.err = NoErr /\ Field(SchemaField(dtr[SchemaPid]), "Type") = JStr("Array")) =>
         Field(SchemaField(run.data), "Identifier") = Field(SchemaField(dtr[SchemaPid]), "subCond")
    /\ (Resolved /\ run.err = NoErr /\ AllFetchesOk) => ArraysTagged(run.data)

\* a resolved array of arrays: the schema links to B, and B to C
C11_Witness ==
    /\ Resolved /\ run.err = NoErr /\ AllFetchesOk
    /\ Field(SchemaField(run.data), "Identifier") = JStr("B")
    /\ Field(SchemaField(Field(SchemaField(run.data), "subCond")), "Identifier") = JStr(LeafPid)

\* C15: every fetch of a run goes to the base URL the command was given.
C15_SameBase ==
    Ran => \A i \in 1..Len(run.log) : run.log[i].base = run.base

\* the links of one document in the order of the document: subCond of the Array
\* section, then the Type of each Properties entry
HasLink(item) == IsStr(Field(item, "Type"))
LinkSeq(doc) ==
    (IF Field(SchemaField(doc), "Type") = JStr("Array") /\ IsStr(Field(SchemaField(doc), "subCond"))
     THEN <<Field(SchemaField(doc), "subCond").v>> ELSE <<>>)
    \o [i \in 1..Len(SelectSeq(PropertiesOf(doc), HasLink)) |->
          Field(SelectSeq(PropertiesOf(doc), HasLink)[i], "Type").v]

\* the pids of a depth-first walk from the links in order: each link, then the
\* whole walk below it, then the next link
RECURSIVE WalkFrom(_, _)
WalkFrom(links, fuel) ==
    IF links = <<>> \/ fuel = 0 THEN <<>>
    ELSE <<Head(links)>> \o WalkFrom(LinkSeq(dtr[Head(links)]), fuel - 1)
         \o WalkFrom(Tail(links), fuel)

FetchedPids == [i \in 1..Len(ResolverFetches) |-> ResolverFetches[i].pid]

\* C17: the fetches of a resolution are those of the depth-first walk in document
\* order, one per link occurrence, a pid linked k times fetched k times.
C17_FetchOrder ==
    (Resolved /\ Acyclic /\ AllFetchesOk) =>
        FetchedPids = WalkFrom(LinkSeq(dtr[SchemaPid]), Cardinality(Pids))

\* a section with an Array link and a Properties link to the same type, whose
\* own link is fetched after each of them: B, C, B, C
C17_Witness ==
    /\ Resolved /\ Acyclic /\ AllFetchesOk
    /\ FetchedPids = <<"B", LeafPid, "B", LeafPid>>

------------------------------------------------------------------------------
(* The builder's leaves, depth and required fields *)

Built_add_types == pc = "done" /\ run.cmd = "add-types"

\* C12: a Properties entry with neither a Type key nor a fundamentalType key is
\* built as a BasicInfoType leaf, and the build raises nothing.
C12_AbsentKindIsLeaf ==
    (/\ Built_add_types
     /\ Has(in_file, "pid") /\ Has(in_file, "name")
     /\ \A i \in 1..Len(PropertiesOf(in_file)) :
          PropertiesOf(in_file)[i] \in BasicItems \cup {PlainItem})
    => /\ run.err = NoErr
       /\ HasTree
       /\ Len(built.heap[built.ref].elements) = Len(PropertiesOf(in_file))
       /\ \A i \in 1..Len(PropertiesOf(in_file)) :
            LET e == built.heap[built.ref].elements[i] IN
            /\ built.heap[e].type = "BasicInfoType"
            /\ built.heap[e].child = None
            /\ built.heap[e].elements = <<>>

\* the recursion depth node n was built at: the parents between it and the root
RECURSIVE Depth(_)
Depth(n) ==
    IF n = None \/ built.heap[n].cls = "DTRSchema" THEN 0
    ELSE 1 + Depth(built.heap[n].parent)

\* C13: whatever maximum depth is configured, no build goes deeper: a document
\* nesting past the maximum ends in DepthExceededError with no node built
\* below the maximum.
C13_DepthGuard ==
    \A max_depth \in 1..RecursionLimit :
        Built_add_types =>
            /\ \A n \in Nodes : Depth(n) <= max_depth
            /\ (\E n \in Nodes : Depth(n) = max_depth /\ n \in NodesOfType("Array") \cup NodesOfType("Object"))
                 => run.err = "DepthExceededError"

\* C14: no node has a null id or name, and a root without pid or name ends the
\* build in SchemaFormatError.
C14_RequiredFields ==
    Built_add_types =>
        /\ \A n \in Nodes : ~IsNone(built.heap[n].id) /\ ~IsNone(built.heap[n].name)
        /\ (~Has(in_file, "pid") \/ ~Has(in_file, "name")) => run.err = "SchemaFormatError"

------------------------------------------------------------------------------
(* register-schema and fetch-json-schema *)

RanRegister == pc = "done" /\ run.cmd \in {"register-schema", "register-schema-aborted"}

\* C16: a register-schema run with --dry-run sends nothing to MSCR, whatever the
\* input file and the verbosity; a request reaches MSCR only from a run without
\* --dry-run, and then it is the one prepared PUT.
C16_DryRunSendsNothing ==
    RanRegister =>
        /\ run.dry_run > 0 => mscr.requests = <<>>
        /\ mscr.requests # <<>> =>
             /\ run.dry_run = 0
             /\ Len(mscr.requests) = 1
             /\ mscr.requests[1].method = "PUT"
             /\ mscr.requests[1].file = json_dumps(in_file)

\* a dry run at DEBUG verbosity over a loaded input file, ended without exception
C16_Witness ==
    /\ RanRegister /\ run.cmd = "register-schema"
    /\ run.dry_run > 0 /\ run.verbose = DEBUG /\ run.err = NoErr
    /\ IsDict(in_file)
    /\ mscr.requests = <<>>

\* key occurs somewhere in the value, inside dicts and lists alike
RECURSIVE HasKeyAnywhere(_, _)
HasKeyAnywhere(x, key) ==
    IF IsDict(x) THEN key \in DOMAIN x.v \/ \E kk \in DOMAIN x.v : HasKeyAnywhere(x.v[kk], key)
    ELSE IF IsList(x) THEN \E i \in 1..Len(x.v) : HasKeyAnywhere(x.v[i], key)
    ELSE FALSE

\* the value with key removed everywhere, inside dicts and lists alike
RECURSIVE Stripped(_, _)
Stripped(x, key) ==
    IF IsDict(x) THEN JDict([kk \in DOMAIN x.v \ {key} |-> Stripped(x.v[kk], key)])
    ELSE IF IsList(x) THEN JList([i \in 1..Len(x.v) |-> Stripped(x.v[i], key)])
    ELSE x

\* C18: the file fetch-json-schema writes holds no "unique" key at any depth,
\* inside lists included, and is otherwise the JSON-Schema the registry served.
C18_NoUniqueLeft ==
    (pc = "done" /\ run.cmd = "fetch-json-schema" /\ run.err = NoErr) =>
        /\ ~HasKeyAnywhere(out_file, "unique")
        /\ out_file = Stripped(json_schema, "unique")

====
